---------------------------- MODULE Spec2Model ----------------------------
(***************************************************************************)
(* Model of src/Main.cpp: the pressure-field (PMSL) viewer.                *)
(*                                                                         *)
(* Main loads a NetCDF grid, derives the display range (GetMinMax),        *)
(* synthesizes the colormap image (CreateColormapImage), computes the      *)
(* geographic bounds (GetBounds), builds the coastline overlay             *)
(* (CoastlineOverlay, setGridSize) and then draws it every frame (draw).   *)
(*                                                                         *)
(* A double is modelled as an exact extended rational [n, d] in lowest     *)
(* terms: d > 0 is the finite value n/d, [1,0] is +Inf, [-1,0] is -Inf and *)
(* [0,0] is NaN.  Arithmetic follows IEEE-754 for the special values       *)
(* (x/0, 0*Inf, Inf-Inf, comparisons with NaN).  Rounding error and the    *)
(* sign of zero are not modelled.                                          *)
(***************************************************************************)
EXTENDS Integers, Sequences, FiniteSets, TLC

VARIABLES
    pc,             \* position of Main
    field,          \* weatherData: pmsl grid (w, h, row-major cells), lats, lons
    pmin, pmax,     \* the pair GetMinMax returned / vmin, vmax of the image
    tvals,          \* per cell, the t handed to Colormap01F (after Clamp)
    img,            \* the Image: per cell, the colour Colormap01F returned
    bounds,         \* GeoBounds
    geoViewRect,    \* RectF passed to the overlay's constructor
    countries_,     \* CoastlineOverlay::countries_
    visibleIndices_,\* CoastlineOverlay::visibleIndices_
    m_w, m_h,       \* CoastlineOverlay::m_w, m_h
    destRect,       \* the destination rectangle of the last frame
    xf,             \* what the last draw derived: pixelSize, sx, sy, translate
    drawn           \* the countries stroked by the last draw, in order

vars == <<pc, field, pmin, pmax, tvals, img, bounds, geoViewRect, countries_,
          visibleIndices_, m_w, m_h, destRect, xf, drawn>>

---------------------------------------------------------------------------
(* Bounds of the model *)

MaxLat == 3          \* largest latitude dimension of an input file
MaxLon == 3          \* largest longitude dimension of an input file
MaxCountries == 2    \* largest number of features in the GeoJSON file
MaxCells == 4        \* largest number of cells of a field whose values vary freely

---------------------------------------------------------------------------
(* double: extended rationals *)

Abs(i) == IF i < 0 THEN -i ELSE i

Sign(i) == IF i < 0 THEN -1 ELSE IF i > 0 THEN 1 ELSE 0

RECURSIVE GCD(_, _)
GCD(a, b) == IF b = 0 THEN a ELSE GCD(b, a % b)

\* the double n/d, in lowest terms; d = 0 gives +Inf, -Inf or NaN by the sign of n
R(n, d) ==
    IF d = 0 THEN [n |-> Sign(n), d |-> 0]
    ELSE LET g == GCD(Abs(n), Abs(d))
             s == Sign(d)
         IN  [n |-> (s * n) \div g, d |-> (s * d) \div g]

I(i) == [n |-> i, d |-> 1]

Zero == I(0)
One == I(1)
Half == [n |-> 1, d |-> 2]
PInf == [n |-> 1, d |-> 0]
NInf == [n |-> -1, d |-> 0]
NaN == [n |-> 0, d |-> 0]

IsNaN(a) == a.n = 0 /\ a.d = 0
IsInf(a) == a.n # 0 /\ a.d = 0

Neg(a) == [n |-> -a.n, d |-> a.d]

Add(a, b) ==
    IF IsInf(a) /\ IsInf(b)
    THEN (IF a.n = b.n THEN a ELSE NaN)
    ELSE R(a.n * b.d + b.n * a.d, a.d * b.d)

Sub(a, b) == Add(a, Neg(b))

Mul(a, b) == R(a.n * b.n, a.d * b.d)

\* 1.0 / a; 1.0 / 0.0 is +Inf
Recip(a) ==
    IF IsNaN(a) THEN NaN
    ELSE IF a.n = 0 THEN PInf
    ELSE IF a.n > 0 THEN [n |-> a.d, d |-> a.n]
    ELSE [n |-> -a.d, d |-> -a.n]

Div(a, b) == Mul(a, Recip(b))

\* a < b on doubles: false when either side is NaN
Lt(a, b) ==
    IF IsNaN(a) \/ IsNaN(b) THEN FALSE
    ELSE IF IsInf(a) /\ IsInf(b) THEN a.n < b.n
    ELSE a.n * b.d < b.n * a.d

\* a >= b on doubles: false when either side is NaN
Ge(a, b) == ~IsNaN(a) /\ ~IsNaN(b) /\ ~Lt(a, b)

\* Siv3D Min, Max and Clamp on doubles
Min(a, b) == IF Lt(b, a) THEN b ELSE a

Max(a, b) == IF Lt(a, b) THEN b ELSE a

ClampNoUpper(v, lo, hi) == IF Lt(v, lo) THEN lo ELSE v

Clamp(v, lo, hi) == IF Lt(v, lo) THEN lo ELSE IF Lt(hi, v) THEN hi ELSE v

---------------------------------------------------------------------------
(* Grid<double>: width, height and the cells in row-major order *)

EmptyGrid == [w |-> 0, h |-> 0, cells |-> <<>>]

\* data[y][x], 0-based as in the source
At(data, y, x) == data.cells[y * data.w + x + 1]

---------------------------------------------------------------------------
(* The NetCDF input files *)

\* values of the msl variable, in Pa: 50 hPa, 99.5 hPa, 100 hPa and 300 hPa
PaValues == {5000, 9950, 10000, 30000}

\* all sequences over S of length n
SeqsOfLen(S, n) == [1..n -> S]

\* a file without one of latitude / longitude / msl, or whose msl variable
\* cannot be read with the requested counts
BrokenFile == [hasVars |-> FALSE, lat |-> <<>>, lon |-> <<>>, msl |-> <<>>]

\* every msl field over PaValues of at most MaxCells cells, on regular axes
\* (lat 0, -1, ...; lon 0, 1, ...)
PressureFiles ==
    {BrokenFile} \cup
    UNION { UNION { { [hasVars |-> TRUE,
                       lat |-> [j \in 1..nLat |-> 1 - j],
                       lon |-> [i \in 1..nLon |-> i - 1],
                       msl |-> m] : m \in SeqsOfLen(PaValues, nLat * nLon) }
                    : nLon \in {n \in 0..MaxCells : nLat * n <= MaxCells} }
            : nLat \in 0..MaxCells }

\* msl profiles repeated over the cells: all below 100 hPa, all equal above,
\* and mixed
PaProfiles == { <<9950, 5000, 9950>>, <<30000, 30000, 30000>>, <<9950, 10000, 30000>> }

\* coordinate axes of n points: ascending, descending, constant, alternating
AxisProfiles(n) ==
    { [k \in 1..n |-> k - 1], [k \in 1..n |-> 1 - k],
      [k \in 1..n |-> 0], [k \in 1..n |-> (k - 1) % 2] }

\* every pair of axes of up to MaxLat x MaxLon points, with an msl profile
AxisFiles ==
    {BrokenFile} \cup
    UNION { UNION { { [hasVars |-> TRUE, lat |-> la, lon |-> lo,
                       msl |-> [k \in 1..(nLat * nLon) |-> p[((k - 1) % 3) + 1]]]
                      : la \in AxisProfiles(nLat),
                        lo \in AxisProfiles(nLon),
                        p \in PaProfiles }
                    : nLon \in 0..MaxLon }
            : nLat \in 0..MaxLat }

\* field after LoadPMSL: pmsl[j][i] = buf[j * nLon + i] * 0.01, width nLon,
\* height nLat
LoadedField(f) ==
    LET nLat == Len(f.lat)
        nLon == Len(f.lon)
    IN  [pmsl |-> [w |-> nLon, h |-> nLat,
                   cells |-> [k \in 1..(nLat * nLon) |-> Mul(I(f.msl[k]), R(1, 100))]],
         lats |-> [j \in 1..nLat |-> I(f.lat[j])],
         lons |-> [i \in 1..nLon |-> I(f.lon[i])]]

---------------------------------------------------------------------------
(* GetMinMax *)

Hundred == I(100)

\* one iteration of the inner loop body on the value v
MinMaxCellUnfiltered(acc, v) ==
    [mn |-> IF ~acc.hasMin \/ Lt(v, acc.mn) THEN v ELSE acc.mn,
     hasMin |-> TRUE,
     mx |-> IF Lt(acc.mx, v) THEN v ELSE acc.mx]

MinMaxCell(acc, v) ==
    [mn |-> IF Ge(v, Hundred) /\ (~acc.hasMin \/ Lt(v, acc.mn)) THEN v ELSE acc.mn,
     hasMin |-> acc.hasMin \/ Ge(v, Hundred),
     mx |-> IF Lt(acc.mx, v) THEN v ELSE acc.mx]

\* the two nested loops, from cell (y, x) on
RECURSIVE MinMaxScan(_, _, _, _)
MinMaxScan(data, y, x, acc) ==
    IF y >= data.h THEN acc
    ELSE IF x >= data.w THEN MinMaxScan(data, y + 1, 0, acc)
    ELSE MinMaxScan(data, y, x + 1, MinMaxCell(acc, At(data, y, x)))

\* the fallback after the loops
MinMaxFallbackZero(acc) == IF ~acc.hasMin THEN Zero ELSE acc.mn

MinMaxFallback(acc) == IF ~acc.hasMin THEN Hundred ELSE acc.mn

GetMinMax(data) ==
    LET acc == MinMaxScan(data, 0, 0, [mn |-> PInf, mx |-> NInf, hasMin |-> FALSE])
    IN  <<MinMaxFallback(acc), acc.mx>>

---------------------------------------------------------------------------
(* CreateColormapImage *)

\* the colour Siv3D's Colormap01F returns for a t in [0, 1]
Colormap01F(t, cmapType) == [cmap |-> cmapType, at |-> t]

\* Colormap01F converts its argument to a table index: on NaN the conversion
\* is undefined, and the build yields some colour of the table or garbage
NaNOutcomes == { Colormap01F(Zero, "Turbo"), Colormap01F(One, "Turbo"),
                 Colormap01F(NaN, "Turbo") }

\* t of one cell, before Clamp
Normalize(v, vmin, invRange) == Mul(Sub(v, vmin), invRange)

\* per cell, the clamped t handed to Colormap01F
ClampedT(data, vmin, vmax) ==
    LET invRange == Div(One, Sub(vmax, vmin))
    IN  [k \in 1..(data.w * data.h) |->
            Clamp(Normalize(At(data, (k - 1) \div data.w, (k - 1) % data.w),
                            vmin, invRange), Zero, One)]

\* the image, given the colour the build yields for a NaN argument
CreateColormapImage(data, vmin, vmax, cmapType, nanColour) ==
    LET t == ClampedT(data, vmin, vmax)
    IN  [w |-> data.w, h |-> data.h,
         px |-> [k \in 1..(data.w * data.h) |->
                    IF IsNaN(t[k]) THEN nanColour ELSE Colormap01F(t[k], cmapType)]]

EmptyImage == [w |-> 0, h |-> 0, px |-> <<>>]

---------------------------------------------------------------------------
(* GetBounds *)

RECURSIVE AxisBounds(_, _, _)
AxisBounds(axis, k, acc) ==
    IF k > Len(axis) THEN acc
    ELSE AxisBounds(axis, k + 1,
                    [min |-> Min(acc.min, axis[k]), max |-> Max(acc.max, axis[k])])

GetBounds(f) ==
    LET lon == AxisBounds(f.lons, 1, [min |-> PInf, max |-> NInf])
        lat == AxisBounds(f.lats, 1, [min |-> PInf, max |-> NInf])
    IN  [lonMin |-> lon.min, lonMax |-> lon.max, latMin |-> lat.min, latMax |-> lat.max]

NoBounds == [lonMin |-> Zero, lonMax |-> Zero, latMin |-> Zero, latMax |-> Zero]

\* Main: y = -latitude
yMin == Neg(bounds.latMax)

yMax == Neg(bounds.latMin)

RectF(x, y, w, h) == [x |-> x, y |-> y, w |-> w, h |-> h]

NoRect == RectF(Zero, Zero, Zero, Zero)

---------------------------------------------------------------------------
(* CoastlineOverlay *)

\* the features of countries.geojson: each a list of vertices (lon, -lat)
CountryShapes ==
    { << <<-1, -2>>, <<3, -2>>, <<3, 2>>, <<-1, 2>> >>,   \* covers the data extent
      << <<0, 3>>, <<1, 3>>, <<1, 4>> >>,                  \* beside it: same lon, other y
      << <<1, 0>>, <<2, 0>>, <<2, 1>> >> }                 \* shares the edge lon = 1

GeoJSONFiles == UNION { SeqsOfLen(CountryShapes, n) : n \in 0..MaxCountries }

RECURSIVE VertexBounds(_, _, _)
VertexBounds(poly, k, acc) ==
    IF k > Len(poly) THEN acc
    ELSE LET v == poly[k]
         IN  VertexBounds(poly, k + 1,
                 [x1 |-> Min(acc.x1, I(v[1])), x2 |-> Max(acc.x2, I(v[1])),
                  y1 |-> Min(acc.y1, I(v[2])), y2 |-> Max(acc.y2, I(v[2]))])

\* MultiPolygon::computeBoundingRect
computeBoundingRect(poly) ==
    LET b == VertexBounds(poly, 1, [x1 |-> PInf, x2 |-> NInf, y1 |-> PInf, y2 |-> NInf])
    IN  RectF(b.x1, b.y1, Sub(b.x2, b.x1), Sub(b.y2, b.y1))

\* RectF::intersects(RectF)
intersectsXOnly(a, b) ==
    /\ Lt(a.x, Add(b.x, b.w))
    /\ Lt(b.x, Add(a.x, a.w))

intersects(a, b) ==
    /\ Lt(a.x, Add(b.x, b.w))
    /\ Lt(b.x, Add(a.x, a.w))
    /\ Lt(a.y, Add(b.y, b.h))
    /\ Lt(b.y, Add(a.y, a.h))

\* the constructor's loop over Indexed(countries_), from index i on (indices
\* are 1-based here, 0-based in the source)
RECURSIVE VisibleScan(_, _, _, _)
VisibleScan(cs, view, i, acc) ==
    IF i > Len(cs) THEN acc
    ELSE VisibleScan(cs, view, i + 1,
             IF intersects(computeBoundingRect(cs[i]), view)
             THEN Append(acc, i) ELSE acc)

\* what draw derives from its arguments and the stored grid size
NoXf == [pixelSize |-> <<Zero, Zero>>, sx |-> Zero, sy |-> Zero,
         translate |-> <<Zero, Zero>>]

drawCornerAligned(dest, lonMin, lonMax, ymin, ymax, gw, gh) ==
    LET pixelSize == <<Div(dest.w, I(gw)), Div(dest.h, I(gh))>>
        halfPixel == <<Mul(pixelSize[1], Half), Mul(pixelSize[2], Half)>>
        sx == Div(dest.w, Sub(lonMax, lonMin))
        sy == Div(dest.h, Sub(ymax, ymin))
    IN  [pixelSize |-> pixelSize, sx |-> sx, sy |-> sy,
         translate |-> <<Sub(Add(dest.x, halfPixel[1]), Mul(lonMin, sx)),
                         Sub(Add(dest.y, halfPixel[2]), Mul(ymin, sy))>>]

draw(dest, lonMin, lonMax, ymin, ymax, gw, gh) ==
    LET pixelSize == <<Div(dest.w, I(gw)), Div(dest.h, I(gh))>>
        halfPixel == <<Mul(pixelSize[1], Half), Mul(pixelSize[2], Half)>>
        sx == Div(Sub(dest.w, pixelSize[1]), Sub(lonMax, lonMin))
        sy == Div(Sub(dest.h, pixelSize[2]), Sub(ymax, ymin))
    IN  [pixelSize |-> pixelSize, sx |-> sx, sy |-> sy,
         translate |-> <<Sub(Add(dest.x, halfPixel[1]), Mul(lonMin, sx)),
                         Sub(Add(dest.y, halfPixel[2]), Mul(ymin, sy))>>]

\* Mat3x2::Scale(sx, sy).translated(translate) applied to the point p
Transform(t, p) == <<Add(Mul(p[1], t.sx), t.translate[1]),
                     Add(Mul(p[2], t.sy), t.translate[2])>>

\* what setGridSize stores
setGridSizeSwapped(w, h) == <<h, w>>

setGridSize(w, h) == <<w, h>>

---------------------------------------------------------------------------
(* Main *)

\* Scene::Size() during a frame
SceneSizes == { <<100, 100>>, <<600, 600>> }

\* Main's locals w and h
w == field.pmsl.w

h == field.pmsl.h

\* the destination rectangle Main derives from the scene size
DestRect(scene) ==
    LET drawScale == Min(Div(I(scene[1]), I(w)), Div(I(scene[2]), I(h)))
        drawSize == <<Mul(I(w), drawScale), Mul(I(h), drawScale)>>
        center == <<Div(I(scene[1]), I(2)), Div(I(scene[2]), I(2))>>
    IN  RectF(Sub(center[1], Mul(drawSize[1], Half)),
              Sub(center[2], Mul(drawSize[2], Half)),
              drawSize[1], drawSize[2])

Init ==
    /\ pc = "start"
    /\ field = [pmsl |-> EmptyGrid, lats |-> <<>>, lons |-> <<>>]
    /\ pmin = Zero
    /\ pmax = Zero
    /\ tvals = <<>>
    /\ img = EmptyImage
    /\ bounds = NoBounds
    /\ geoViewRect = NoRect
    /\ countries_ = <<>>
    /\ visibleIndices_ = <<>>
    /\ m_w = 1
    /\ m_h = 1
    /\ destRect = NoRect
    /\ xf = NoXf
    /\ drawn = <<>>

\* LoadPMSL(field, ncPath): throws when a variable is missing, else fills field
LoadPMSL(files) ==
    /\ pc = "start"
    /\ \E f \in files :
          IF ~f.hasVars
          THEN /\ pc' = "failed"
               /\ UNCHANGED field
          ELSE /\ pc' = "loaded"
               /\ field' = LoadedField(f)
    /\ UNCHANGED <<pmin, pmax, tvals, img, bounds, geoViewRect, countries_,
                   visibleIndices_, m_w, m_h, destRect, xf, drawn>>

\* const auto [pmin, pmax] = GetMinMax(field.pmsl)
CallGetMinMax ==
    /\ pc = "loaded"
    /\ pmin' = GetMinMax(field.pmsl)[1]
    /\ pmax' = GetMinMax(field.pmsl)[2]
    /\ pc' = "ranged"
    /\ UNCHANGED <<field, tvals, img, bounds, geoViewRect, countries_,
                   visibleIndices_, m_w, m_h, destRect, xf, drawn>>

\* Texture cmapTex{ CreateColormapImage(field.pmsl, vmin, vmax, Turbo) }
CallCreateColormapImage ==
    /\ pc = "ranged"
    /\ tvals' = ClampedT(field.pmsl, pmin, pmax)
    /\ \E nanColour \in NaNOutcomes :
          img' = CreateColormapImage(field.pmsl, pmin, pmax, "Turbo", nanColour)
    /\ pc' = "imaged"
    /\ UNCHANGED <<field, pmin, pmax, bounds, geoViewRect, countries_,
                   visibleIndices_, m_w, m_h, destRect, xf, drawn>>

\* bounds = GetBounds(field), then yMin, yMax and geoViewRect
CallGetBounds ==
    /\ pc = "imaged"
    /\ bounds' = GetBounds(field)
    /\ LET b == GetBounds(field)
       IN  geoViewRect' = RectF(b.lonMin, Neg(b.latMax),
                                Sub(b.lonMax, b.lonMin),
                                Sub(Neg(b.latMin), Neg(b.latMax)))
    /\ pc' = "bounded"
    /\ UNCHANGED <<field, pmin, pmax, tvals, img, countries_, visibleIndices_,
                   m_w, m_h, destRect, xf, drawn>>

\* CoastlineOverlay coastline{ geoViewRect }
ConstructOverlay ==
    /\ pc = "bounded"
    /\ \E features \in GeoJSONFiles :
          /\ countries_' = features
          /\ visibleIndices_' = VisibleScan(features, geoViewRect, 1, <<>>)
    /\ m_w' = 1
    /\ m_h' = 1
    /\ pc' = "constructed"
    /\ UNCHANGED <<field, pmin, pmax, tvals, img, bounds, geoViewRect,
                   destRect, xf, drawn>>

\* coastline.setGridSize(w, h)
CallSetGridSize ==
    /\ pc = "constructed"
    /\ m_w' = setGridSize(w, h)[1]
    /\ m_h' = setGridSize(w, h)[2]
    /\ pc' = "loop"
    /\ UNCHANGED <<field, pmin, pmax, tvals, img, bounds, geoViewRect,
                   countries_, visibleIndices_, destRect, xf, drawn>>

\* one iteration of the main loop: System::Update() returned true
Frame ==
    /\ pc \in {"loop", "frame"}
    /\ \E scene \in SceneSizes :
          /\ destRect' = DestRect(scene)
          /\ xf' = draw(DestRect(scene), bounds.lonMin, bounds.lonMax, yMin, yMax,
                        m_w, m_h)
    /\ drawn' = visibleIndices_
    /\ pc' = "frame"
    /\ UNCHANGED <<field, pmin, pmax, tvals, img, bounds, geoViewRect,
                   countries_, visibleIndices_, m_w, m_h>>

\* System::Update() returned false
Quit ==
    /\ pc \in {"loop", "frame"}
    /\ pc' = "done"
    /\ UNCHANGED <<field, pmin, pmax, tvals, img, bounds, geoViewRect,
                   countries_, visibleIndices_, m_w, m_h, destRect, xf, drawn>>

LoadAxisFile == LoadPMSL(AxisFiles)

Next ==
    \/ LoadAxisFile
    \/ CallGetMinMax
    \/ CallCreateColormapImage
    \/ CallGetBounds
    \/ ConstructOverlay
    \/ CallSetGridSize
    \/ Frame
    \/ Quit

\* Main, on files whose axes vary
Spec == Init /\ [][Next]_vars

---------------------------------------------------------------------------
(* GetMinMax and CreateColormapImage as functions of their arguments *)

\* vmin and vmax of a direct call, in hPa
RangeValues == { R(199, 2), I(100), I(300) }

\* CreateColormapImage(data, vmin, vmax, Turbo) on any pair (vmin, vmax)
SynthesizeWith ==
    /\ pc = "loaded"
    /\ \E vmin \in RangeValues, vmax \in RangeValues :
          /\ pmin' = vmin
          /\ pmax' = vmax
          /\ tvals' = ClampedT(field.pmsl, vmin, vmax)
          /\ \E nanColour \in NaNOutcomes :
                img' = CreateColormapImage(field.pmsl, vmin, vmax, "Turbo", nanColour)
    /\ pc' = "imaged"
    /\ UNCHANGED <<field, bounds, geoViewRect, countries_, visibleIndices_,
                   m_w, m_h, destRect, xf, drawn>>

LoadPressureFile == LoadPMSL(PressureFiles)

NextFn ==
    \/ LoadPressureFile
    \/ CallGetMinMax
    \/ CallCreateColormapImage
    \/ SynthesizeWith

\* the range and image functions, on files whose pressure values vary
SpecFn == Init /\ [][NextFn]_vars

---------------------------------------------------------------------------
(* Properties *)

NumCells == Len(field.pmsl.cells)

CellValues == { field.pmsl.cells[k] : k \in 1..NumCells }

Qualifying == { v \in CellValues : Ge(v, Hundred) }

SetMin(S) == CHOOSE m \in S : \A v \in S : ~Lt(v, m)

SetMax(S) == CHOOSE m \in S : \A v \in S : ~Lt(m, v)

\* the grid with its cells rearranged by the permutation p of the cell indices
Permuted(data, p) == [data EXCEPT !.cells = [k \in 1..Len(data.cells) |-> data.cells[p[k]]]]

\* C1: on a non-empty grid with at least one cell >= 100, GetMinMax returns
\* low = the minimum over exactly the cells >= 100 and high = the maximum over
\* all cells, and returns the same pair for every permutation of the cells.
C1_FilteredMin ==
    (pc = "ranged" /\ Qualifying # {}) =>
        /\ pmin = SetMin(Qualifying)
        /\ pmax = SetMax(CellValues)
        /\ \A p \in Permutations(1..NumCells) :
              GetMinMax(Permuted(field.pmsl, p)) = <<pmin, pmax>>

\* C1 witness: GetMinMax has run on a grid of at least three cells that holds
\* a value below 100 and two different values >= 100, the smaller one not first
C1_Witness ==
    /\ pc = "ranged"
    /\ NumCells >= 3
    /\ \E v \in CellValues : Lt(v, Hundred)
    /\ Cardinality(Qualifying) >= 2
    /\ field.pmsl.cells[1] # SetMin(Qualifying)
    /\ pmin = Hundred
    /\ pmax = I(300)

\* C2: on a non-empty grid whose cells are all < 100, GetMinMax returns
\* low = 100 exactly, whatever the cell values are.
C2_Fallback ==
    (pc = "ranged" /\ NumCells > 0 /\ \A v \in CellValues : Lt(v, Hundred)) =>
        pmin = Hundred

\* C2 witness: GetMinMax has run on a grid of two different values below 100
C2_Witness ==
    /\ pc = "ranged"
    /\ Cardinality(CellValues) >= 2
    /\ \A v \in CellValues : Lt(v, Hundred)
    /\ pmin = Hundred

\* C3: GetMinMax on an empty grid and GetBounds on a field with an empty axis
\* fail with an error: Main never holds a range computed from zero cells, nor
\* bounds computed from an empty lons or lats.
C3_EmptyInputRejected ==
    /\ pc = "ranged" => NumCells > 0
    /\ pc = "bounded" => (Len(field.lons) > 0 /\ Len(field.lats) > 0)

\* the clamp property of the image, for the current (vmin, vmax)
ClampProperty ==
    /\ img.w = field.pmsl.w
    /\ img.h = field.pmsl.h
    /\ \A y \in 0..(field.pmsl.h - 1), x \in 0..(field.pmsl.w - 1) :
          LET v == At(field.pmsl, y, x)
              c == img.px[y * img.w + x + 1]
          IN  /\ Lt(v, pmin) => c = Colormap01F(Zero, "Turbo")
              /\ Lt(pmax, v) => c = Colormap01F(One, "Turbo")

\* C4 as stated: for any grid and any range (low, high), every cell < low gets
\* the colour at t = 0 and every cell > high the colour at t = 1, at its own
\* (row, col).
C4_ClampAnyRange == pc = "imaged" => ClampProperty

\* C4 amended: the same, for any grid and any range with low <= high.
C4_ClampOrderedRange == (pc = "imaged" /\ Ge(pmax, pmin)) => ClampProperty

\* C4 witness: an image made with low < high from a grid holding a cell below
\* low and a cell above high
C4_Witness ==
    /\ pc = "imaged"
    /\ Lt(pmin, pmax)
    /\ \E v \in CellValues : Lt(v, pmin)
    /\ \E v \in CellValues : Lt(pmax, v)
    /\ ClampProperty

\* C5: with low = high no NaN reaches the colormap lookup and every cell of
\* the image gets the same colour.
C5_DegenerateRangeSafe ==
    (pc = "imaged" /\ pmin = pmax) =>
        /\ \A k \in 1..Len(tvals) : ~IsNaN(tvals[k])
        /\ \A j \in 1..Len(img.px), k \in 1..Len(img.px) : img.px[j] = img.px[k]

StrictlyMonotonic(axis) ==
    \/ \A k \in 1..(Len(axis) - 1) : Lt(axis[k], axis[k + 1])
    \/ \A k \in 1..(Len(axis) - 1) : Lt(axis[k + 1], axis[k])

\* size of one destination pixel: destRect.size / (grid width, grid height)
PixelSize == <<Div(destRect.w, I(w)), Div(destRect.h, I(h))>>

Constructed == pc \in {"constructed", "loop", "frame", "done"}

\* extent of the overlap of two rectangles along x and along y
OverlapW(a, b) == Sub(Min(Add(a.x, a.w), Add(b.x, b.w)), Max(a.x, b.x))

OverlapH(a, b) == Sub(Min(Add(a.y, a.h), Add(b.y, b.h)), Max(a.y, b.y))

VisibleSet == { visibleIndices_[k] : k \in 1..Len(visibleIndices_) }

\* C7: after construction the visibility set holds exactly the indices of the
\* features whose bounding box intersects the view rectangle: none whose box
\* lies entirely outside, every one whose box overlaps it by a unit or more;
\* every index is valid and none is repeated.
C7_VisibilityCulling ==
    Constructed =>
        /\ VisibleSet = { i \in 1..Len(countries_) :
                            intersects(computeBoundingRect(countries_[i]), geoViewRect) }
        /\ \A i \in 1..Len(countries_) :
              LET box == computeBoundingRect(countries_[i])
              IN  /\ (Lt(OverlapW(box, geoViewRect), Zero)
                        \/ Lt(OverlapH(box, geoViewRect), Zero)) => i \notin VisibleSet
                  /\ (Ge(OverlapW(box, geoViewRect), One)
                        /\ Ge(OverlapH(box, geoViewRect), One)) => i \in VisibleSet
        /\ VisibleSet \subseteq 1..Len(countries_)
        /\ Cardinality(VisibleSet) = Len(visibleIndices_)

\* C7 witness: an overlay built from two features, the first outside the view
\* rectangle and the second overlapping it by a unit, only the second visible
C7_Witness ==
    /\ Constructed
    /\ Len(countries_) = 2
    /\ Lt(OverlapH(computeBoundingRect(countries_[1]), geoViewRect), Zero)
    /\ Ge(OverlapW(computeBoundingRect(countries_[2]), geoViewRect), One)
    /\ Ge(OverlapH(computeBoundingRect(countries_[2]), geoViewRect), One)
    /\ visibleIndices_ = <<2>>

\* C8: once the main loop runs no draw call hits a failure condition: in
\* every frame lonMax - lonMin, yMax - yMin, the grid width and the grid
\* height are nonzero, for every input that passed loading; stated here for
\* the non-empty grids, a single column or a single row included.
C8_FramePathErrorFree ==
    (pc = "frame" /\ NumCells > 0) =>
        /\ Sub(bounds.lonMax, bounds.lonMin) # Zero
        /\ Sub(yMax, yMin) # Zero
        /\ m_w # 0
        /\ m_h # 0

\* C9: the range GetMinMax returns for a non-empty grid, which Main passes
\* on as (vmin, vmax), has high >= low.
C9_RangeOrdered == (pc = "ranged" /\ NumCells > 0) => Ge(pmax, pmin)

InLoop == pc \in {"loop", "frame"}

\* C10: setGridSize(w, h) runs after the construction and before the first
\* draw and nothing changes the stored size afterwards: in every frame draw
\* computes pixelSize from the width and height of the loaded grid, and the
\* visibility set and bounds of every frame are those computed before the
\* loop.
C10_GridSizeSet ==
    /\ [](InLoop => (m_w = w /\ m_h = h))
    /\ [](pc = "frame" => (xf.pixelSize = PixelSize /\ drawn = visibleIndices_))
    /\ [][pc' = "loop" => pc = "constructed"]_vars
    /\ [][(pc' = "frame" /\ pc # "frame") => pc = "loop"]_vars
    /\ [][InLoop => UNCHANGED <<m_w, m_h, visibleIndices_, countries_, bounds, field>>]_vars

\* C10 witness: a frame drawn for a grid wider than high, its size stored and
\* a feature visible
C10_Witness ==
    /\ pc = "frame"
    /\ w = 2
    /\ h = 1
    /\ m_w = 2
    /\ m_h = 1
    /\ drawn # <<>>
    /\ xf.pixelSize = PixelSize

=============================================================================
